---------------------------- MODULE Spec2Model ----------------------------
(***************************************************************************)
(* Weighted-average cost pool, settlement and tax orchestration of the     *)
(* investment tax calculator (src/src/cost_pool.py, src/src/settlement.py, *)
(* src/src/calculator.py, src/src/database.py).                            *)
(*                                                                         *)
(* Numbers.  The program computes in binary floating point.  Amounts are   *)
(* modelled as exact rationals <<n, d>> (d > 0, lowest terms), i.e. by the *)
(* real-number value of every float expression; rounding error itself is   *)
(* not modelled.  Quantities are integers counted in a unit finer than     *)
(* the pool's tolerance 1e-9: EPS units make up 1e-9, so that a quantity   *)
(* q with 0 < |q| < EPS is float dust, |q| = EPS is the boundary and       *)
(* |q| > EPS is a real position.  Every comparison against 1e-9 in the     *)
(* code is a comparison against EPS here.                                  *)
(***************************************************************************)
EXTENDS Integers, Sequences, FiniteSets, TLC

VARIABLES
    quantity,        \* CostPool._quantity   (cost_pool.py:40)
    total_cost,      \* CostPool._total_cost (cost_pool.py:41)
    history,         \* CostPool._history    (cost_pool.py:42)
    call,            \* the last buy/sell call on the pool: arguments, pool before, outcome
    orders,          \* table orders of the database, by order_id (database.py:20-30)
    exchange_rates,  \* table exchange_rates of the database (database.py:33-40)
    results,         \* what calculate(year) last returned, per year (calculator.py:25-46)
    probe,           \* the last call of get_rate / settle_buy / settle_sell_with_rate:
                     \* arguments, rate table before, outcome
    fetch            \* LongBridgeClient.fetch_orders under way: its arguments,
                     \* chunk_start and the windows requested (longbridge_client.py:19-59)

poolVars == <<quantity, total_cost, history, call>>

dbVars == <<orders, exchange_rates, results>>

vars == <<quantity, total_cost, history, call, orders, exchange_rates, results, probe, fetch>>

----------------------------------------------------------------------------
(* Bounds of the model *)

MaxOps == 3          \* calls that append to the history of one pool
MaxLots == 2         \* largest order quantity offered to buy/sell, in lots
MaxAmt == 2          \* largest settled amount offered to buy/sell
MaxOrders == 3       \* orders imported into the database
MaxTrades == 4       \* orders imported when all trading is in one year
MaxRates == 2        \* rates in the exchange_rates table when get_rate is last asked
MaxSpan == 200       \* days from the start to the end of the range fetch_orders is asked for

(* 1e-9 of cost_pool.py, in quantity units *)
EPS == 2

----------------------------------------------------------------------------
(* Exact rational arithmetic standing for the float operators + - * / < *)

Abs(x) == IF x < 0 THEN -x ELSE x

Min(a, b) == IF a < b THEN a ELSE b

RECURSIVE GCD(_, _)
GCD(a, b) == IF b = 0 THEN a ELSE GCD(b, a % b)

RNorm(n, d) ==
    LET s == IF d < 0 THEN -1 ELSE 1
        g == GCD(Abs(n), Abs(d))
    IN  IF n = 0 THEN <<0, 1>> ELSE <<(s * n) \div g, (s * d) \div g>>

R(n) == <<n, 1>>

Zero == <<0, 1>>

RAdd(a, b) == RNorm(a[1] * b[2] + b[1] * a[2], a[2] * b[2])

RSub(a, b) == RNorm(a[1] * b[2] - b[1] * a[2], a[2] * b[2])

RMul(a, b) == RNorm(a[1] * b[1], a[2] * b[2])

\* only used with b # 0 (the code divides by abs(quantity) >= 1e-9 and by qty > 0)
RDiv(a, b) == RNorm(a[1] * b[2], a[2] * b[1])

RLt(a, b) == a[1] * b[2] < b[1] * a[2]

\* <= read as <
RLe_strict(a, b) == a[1] * b[2] < b[1] * a[2]

RLe(a, b) == a[1] * b[2] <= b[1] * a[2]

----------------------------------------------------------------------------
(* CostPool: properties *)

\* avg_cost with division by the signed quantity (a sign slip)
avg_cost_signed(q, t) == IF Abs(q) < EPS THEN Zero ELSE RDiv(t, R(q))

avg_cost(q, t) == IF Abs(q) < EPS THEN Zero ELSE RDiv(t, R(Abs(q)))

is_short(q) == q < -EPS

is_long(q) == q > EPS

\* _cleanup that never snaps
cleanup_never(q, t) == [quantity |-> q, total_cost |-> t]

cleanup(q, t) ==
    IF Abs(q) < EPS
    THEN [quantity |-> 0, total_cost |-> Zero]
    ELSE [quantity |-> q, total_cost |-> t]

\* a history that keeps only the latest record
record_replacing(h, side, qty, amount, q, t) ==
    <<[side |-> side, quantity |-> qty, amount |-> amount,
       avg_cost_after |-> avg_cost(q, t),
       quantity_after |-> q, total_cost_after |-> t]>>

\* CostPool._record
record(h, side, qty, amount, q, t) ==
    Append(h, [side |-> side, quantity |-> qty, amount |-> amount,
               avg_cost_after |-> avg_cost(q, t),
               quantity_after |-> q, total_cost_after |-> t])

Raised(p) == [pool |-> p, raised |-> TRUE, ret |-> Zero]

Returned(q, t, h, ret) ==
    [pool |-> [quantity |-> q, total_cost |-> t, history |-> h],
     raised |-> FALSE, ret |-> ret]

\* opening a long that swallows a quantity below the tolerance
open_long_snapped(p, qty, settled_amount) ==
    LET c == cleanup(p.quantity + qty, RAdd(p.total_cost, settled_amount))
    IN  Returned(c.quantity, c.total_cost,
                 record(p.history, "BUY", qty, settled_amount, c.quantity, c.total_cost),
                 Zero)

\* buy, opening/adding long: quantity += qty, total_cost += settled_amount, return 0
open_long(p, qty, settled_amount) ==
    LET q1 == p.quantity + qty
        t1 == RAdd(p.total_cost, settled_amount)
    IN  Returned(q1, t1, record(p.history, "BUY", qty, settled_amount, q1, t1), Zero)

\* a short opened without booking the proceeds received
open_short_unbooked(p, qty, settled_amount) ==
    LET q1 == p.quantity - qty
    IN  Returned(q1, p.total_cost,
                 record(p.history, "SELL", qty, settled_amount, q1, p.total_cost), Zero)

\* sell, opening/adding short: quantity -= qty, total_cost += settled_amount, return 0
open_short(p, qty, settled_amount) ==
    LET q1 == p.quantity - qty
        t1 == RAdd(p.total_cost, settled_amount)
    IN  Returned(q1, t1, record(p.history, "SELL", qty, settled_amount, q1, t1), Zero)

\* closing a short hands back the whole locked-in total, however little is closed
short_cost_basis_all(close_qty, q, t) == t

\* cost_basis = close_qty * self.avg_cost  (buy, closing a short)
short_cost_basis(close_qty, q, t) == RMul(R(close_qty), avg_cost(q, t))

\* the remainder is charged the whole settled amount
remainder_cost_whole(settled_amount, remainder, qty) == settled_amount

\* remainder_cost = settled_amount * (remainder / qty)
remainder_cost(settled_amount, remainder, qty) ==
    RMul(settled_amount, RDiv(R(remainder), R(qty)))

(* CostPool.buy: the pool after the call, whether it raised, and the value returned *)
buy(p, qty, settled_amount) ==
    IF qty <= 0 THEN Raised(p)
    ELSE IF RLt(settled_amount, Zero) THEN Raised(p)
    ELSE IF is_short(p.quantity)
    THEN LET close_qty  == Min(qty, Abs(p.quantity))
             cost_basis == short_cost_basis(close_qty, p.quantity, p.total_cost)
             c          == cleanup(p.quantity + close_qty,
                                   RSub(p.total_cost, cost_basis))
             h1         == record(p.history, "BUY", close_qty, cost_basis,
                                  c.quantity, c.total_cost)
             remainder  == qty - close_qty
         IN  IF remainder > EPS
             THEN LET rc == remainder_cost(settled_amount, remainder, qty)
                      q2 == c.quantity + remainder
                      t2 == RAdd(c.total_cost, rc)
                  IN  Returned(q2, t2, record(h1, "BUY", remainder, rc, q2, t2),
                               cost_basis)
             ELSE Returned(c.quantity, c.total_cost, h1, cost_basis)
    ELSE open_long(p, qty, settled_amount)

\* the oversell guard with twice the tolerance
oversell_wide(qty, held) == qty > held + 2 * EPS

\* if qty > self._quantity + 1e-9: raise
oversell(qty, held) == qty > held + EPS

\* the cost basis of a sale taken from the sale's own settled proceeds
sell_cost_basis_settled(qty, q, t, settled_amount) == settled_amount

\* cost_basis = qty * self.avg_cost  (sell, closing a long)
sell_cost_basis(qty, q, t, settled_amount) == RMul(R(qty), avg_cost(q, t))

(* CostPool.sell *)
sell(p, qty, settled_amount) ==
    IF qty <= 0 THEN Raised(p)
    ELSE IF is_long(p.quantity)
    THEN IF oversell(qty, p.quantity) THEN Raised(p)
         ELSE LET cost_basis == sell_cost_basis(qty, p.quantity, p.total_cost,
                                                settled_amount)
                  c          == cleanup(p.quantity - qty, RSub(p.total_cost, cost_basis))
              IN  Returned(c.quantity, c.total_cost,
                           record(p.history, "SELL", qty, cost_basis,
                                  c.quantity, c.total_cost),
                           cost_basis)
    ELSE IF RLe(settled_amount, Zero) THEN Raised(p)
         ELSE open_short(p, qty, settled_amount)

\* CostPool.__init__
NewPool == [quantity |-> 0, total_cost |-> Zero, history |-> <<>>]

----------------------------------------------------------------------------
(* A single pool driven by arbitrary buy/sell calls *)

Pool == [quantity |-> quantity, total_cost |-> total_cost, history |-> history]

\* the smallest quantity that is_long / is_short recognise as a position
Lot == EPS + 1

\* order quantities: invalid (0), dust (1), the tolerance itself, and whole lots
QtyInputs == {0, 1, EPS} \cup {k * Lot : k \in 1 .. MaxLots}

AmtInputs == -1 .. MaxAmt

NoCall == [op |-> "new", qty |-> 0, amount |-> Zero, pre |-> NewPool,
           raised |-> FALSE, ret |-> Zero]

\* DatabaseManager._init_database on a new file: both tables empty
NoOrders == <<>>

NoRates == [k \in {} |-> Zero]

NoResults == [y \in {} |-> Zero]

\* no rate looked up and no order settled yet
NoProbe == [op |-> "none"]

\* fetch_orders not called
NoFetch == [pc |-> "idle"]

Init ==
    /\ quantity = NewPool.quantity
    /\ total_cost = NewPool.total_cost
    /\ history = NewPool.history
    /\ call = NoCall
    /\ orders = NoOrders
    /\ exchange_rates = NoRates
    /\ results = NoResults
    /\ probe = NoProbe
    /\ fetch = NoFetch

Apply(op, qty, amt, r) ==
    /\ quantity' = r.pool.quantity
    /\ total_cost' = r.pool.total_cost
    /\ history' = r.pool.history
    /\ call' = [op |-> op, qty |-> qty, amount |-> amt, pre |-> Pool,
                raised |-> r.raised, ret |-> r.ret]
    /\ UNCHANGED <<dbVars, probe, fetch>>

\* A call that raised leaves the pool as it was and hands the error to the caller;
\* the calls that could follow it are the calls that could have been made instead.
Buy ==
    /\ ~call.raised
    /\ Len(history) < MaxOps
    /\ \E qty \in QtyInputs, a \in AmtInputs :
          Apply("buy", qty, R(a), buy(Pool, qty, R(a)))

Sell ==
    /\ ~call.raised
    /\ Len(history) < MaxOps
    /\ \E qty \in QtyInputs, a \in AmtInputs :
          Apply("sell", qty, R(a), sell(Pool, qty, R(a)))

Next == Buy \/ Sell

Spec == Init /\ [][Next]_vars

----------------------------------------------------------------------------
(* Orders.  executed_at is an ISO timestamp without fraction or zone (what
   datetime.fromtimestamp(..).isoformat() gives); it is modelled by the day it
   falls on, counted from 1 January of FirstYear in years of 365 days, and
   the position of the instant within all instants.  No two orders share a
   timestamp. *)

DEFAULT_TAX_YEAR == 2024

FirstYear == DEFAULT_TAX_YEAR - 1

Years == {FirstYear, DEFAULT_TAX_YEAR}

\* datetime.fromisoformat(executed_at).year, strftime('%Y', executed_at)
YearOf(date) == FirstYear + (date \div 365)

\* string order of two ISO timestamps of the same format
TimeLe(a, b) == a.date < b.date \/ (a.date = b.date /\ a.seq <= b.seq)

Digits == {"0", "1", "2", "3", "4", "5", "6", "7", "8", "9"}

\* the symbols traded, in string order (ORDER BY symbol): "." sorts before "2"
Symbols == <<"SPY.US", "SPY250402P535000.US">>

\* the symbols get_multiplier is asked about, with their characters
SymbolChars ==
    ("SPY.US" :>
        <<"S", "P", "Y", ".", "U", "S">>)
 @@ ("SPY250402P535000.US" :>
        <<"S", "P", "Y", "2", "5", "0", "4", "0", "2", "P", "5", "3", "5", "0", "0", "0", ".", "U", "S">>)
 @@ ("AMD250718C130000.US" :>
        <<"A", "M", "D", "2", "5", "0", "7", "1", "8", "C", "1", "3", "0", "0", "0", "0", ".", "U", "S">>)
 @@ ("SPY250402P5.US" :>
        <<"S", "P", "Y", "2", "5", "0", "4", "0", "2", "P", "5", ".", "U", "S">>)
 @@ ("AMDL.US" :>
        <<"A", "M", "D", "L", ".", "U", "S">>)
 @@ ("SOXL.US" :>
        <<"S", "O", "X", "L", ".", "U", "S">>)
 @@ ("BRK.B.US" :>
        <<"B", "R", "K", ".", "B", ".", "U", "S">>)
 @@ ("1378.HK" :>
        <<"1", "3", "7", "8", ".", "H", "K">>)
 @@ ("250402P535000.US" :>
        <<"2", "5", "0", "4", "0", "2", "P", "5", "3", "5", "0", "0", "0", ".", "U", "S">>)
 @@ ("SPY25040P535000.US" :>
        <<"S", "P", "Y", "2", "5", "0", "4", "0", "P", "5", "3", "5", "0", "0", "0", ".", "U", "S">>)
 @@ ("SPY250402X535000.US" :>
        <<"S", "P", "Y", "2", "5", "0", "4", "0", "2", "X", "5", "3", "5", "0", "0", "0", ".", "U", "S">>)
 @@ ("SPY250402P.US" :>
        <<"S", "P", "Y", "2", "5", "0", "4", "0", "2", "P", ".", "U", "S">>)
 @@ ("SPY250402P535000.HK" :>
        <<"S", "P", "Y", "2", "5", "0", "4", "0", "2", "P", "5", "3", "5", "0", "0", "0", ".", "H", "K">>)
 @@ ("SPY250402P535000.USD" :>
        <<"S", "P", "Y", "2", "5", "0", "4", "0", "2", "P", "5", "3", "5", "0", "0", "0", ".", "U", "S", "D">>)
 @@ ("SPY250402P535000.US\n" :>
        <<"S", "P", "Y", "2", "5", "0", "4", "0", "2", "P", "5", "3", "5", "0", "0", "0", ".", "U", "S", "\n">>)

\* the characters of a symbol
Chars(symbol) == SymbolChars[symbol]

----------------------------------------------------------------------------
(* ExchangeRateManager.  A missing rate (None) and the rate 0 are both falsy
   in every test the code makes on a rate; both are Zero here. *)

CNY_RATES == [USD |-> <<36, 5>>, HKD |-> <<23, 25>>, SGD |-> <<107, 20>>,
              EUR |-> <<39, 5>>, GBP |-> <<91, 10>>]

Truthy(rate) == rate # Zero

\* DatabaseManager.get_exchange_rate
get_exchange_rate(rates, date, from_currency, to_currency) ==
    IF <<date, from_currency, to_currency>> \in DOMAIN rates
    THEN rates[<<date, from_currency, to_currency>>]
    ELSE Zero

\* DatabaseManager.save_exchange_rate: INSERT OR REPLACE
save_exchange_rate(rates, date, from_currency, to_currency, rate) ==
    LET key == <<date, from_currency, to_currency>>
    IN  [k \in DOMAIN rates \cup {key} |-> IF k = key THEN rate ELSE rates[k]]

\* ExchangeRateManager._fetch_rate; api is what the rate service answered
\* (Zero: no answer, an error or no such rate)
fetch_rate(api, date, from_currency, to_currency) ==
    IF Truthy(api) THEN api
    ELSE IF to_currency = "CNY" /\ from_currency \in DOMAIN CNY_RATES
         THEN CNY_RATES[from_currency]
         ELSE Zero

\* ExchangeRateManager._get_nearby_rate: offsets 1..7, the earlier day first
RECURSIVE nearby_from(_, _, _, _, _)
nearby_from(rates, date, from_currency, to_currency, offset) ==
    IF offset > 7 THEN Zero
    ELSE LET before == get_exchange_rate(rates, date - offset, from_currency, to_currency)
             after  == get_exchange_rate(rates, date + offset, from_currency, to_currency)
         IN  IF Truthy(before) THEN before
             ELSE IF Truthy(after) THEN after
             ELSE nearby_from(rates, date, from_currency, to_currency, offset + 1)

get_nearby_rate(rates, date, from_currency, to_currency) ==
    nearby_from(rates, date, from_currency, to_currency, 1)

\* ExchangeRateManager._get_fallback_rate
get_fallback_rate(from_currency, to_currency) ==
    IF to_currency = "CNY" /\ from_currency \in DOMAIN CNY_RATES
    THEN CNY_RATES[from_currency]
    ELSE Zero

\* get_rate without its last resort: no rate found, none returned
get_rate_or_none(rates, api, date, from_currency, to_currency) ==
    LET cached == get_exchange_rate(rates, date, from_currency, to_currency)
        fetched == fetch_rate(api, date, from_currency, to_currency)
    IN  IF Truthy(cached) THEN [rate |-> cached, rates |-> rates]
        ELSE IF Truthy(fetched)
        THEN [rate |-> fetched,
              rates |-> save_exchange_rate(rates, date, from_currency,
                                           to_currency, fetched)]
        ELSE [rate |-> Zero, rates |-> rates]

(* ExchangeRateManager.get_rate: the rate returned and the table afterwards *)
get_rate(rates, api, date, from_currency, to_currency) ==
    LET cached == get_exchange_rate(rates, date, from_currency, to_currency)
    IN  IF Truthy(cached) THEN [rate |-> cached, rates |-> rates]
        ELSE LET fetched == fetch_rate(api, date, from_currency, to_currency)
                 near    == IF Truthy(fetched) THEN fetched
                            ELSE get_nearby_rate(rates, date, from_currency, to_currency)
                 rate    == IF Truthy(near) THEN near
                            ELSE get_fallback_rate(from_currency, to_currency)
             IN  IF Truthy(rate)
                 THEN [rate |-> rate,
                       rates |-> save_exchange_rate(rates, date, from_currency,
                                                    to_currency, rate)]
                 ELSE [rate |-> R(1), rates |-> rates]

----------------------------------------------------------------------------
(* settlement.py *)

IsDigit(c) == c \in Digits

AllDigits(s, from, to) == \A i \in from .. to : IsDigit(s[i])

\* "." of a pattern compiled without DOTALL: any character but a line feed
AnyChars(s, from, to) == \A i \in from .. to : s[i] # "\n"

\* .+\d{6}[CP]\d+\.US from the first to the last character of s, with a
\* strike of k digits
PatternBody(s) ==
    \E k \in 1 .. Len(s) :
        LET n == Len(s)
            cp == n - 3 - k
        IN  /\ cp - 6 > 1
            /\ SubSeq(s, n - 2, n) = <<".", "U", "S">>
            /\ AllDigits(s, cp + 1, n - 3)
            /\ s[cp] \in {"C", "P"}
            /\ AllDigits(s, cp - 6, cp - 1)
            /\ AnyChars(s, 1, cp - 7)

(* _OPTION_PATTERN.match: ^.+\d{6}[CP]\d+\.US$.  "$" of a pattern compiled
   without MULTILINE matches at the end of the string and before a line feed
   that ends the string. *)
OptionPattern(s) ==
    \/ PatternBody(s)
    \/ /\ s # <<>>
       /\ s[Len(s)] = "\n"
       /\ PatternBody(SubSeq(s, 1, Len(s) - 1))

get_multiplier(symbol) == IF OptionPattern(Chars(symbol)) THEN 100 ELSE 1

\* the gross amount of an order without the contract multiplier
gross_unit(order) == RMul(R(order.quantity), order.price)

\* SettlementCalculator._gross
gross(order) == RMul(RMul(R(order.quantity), order.price), R(get_multiplier(order.symbol)))

\* the fees of an order as fetch_orders stores them: {}
NoFees == [shape |-> "empty", total |-> Zero]

(* The shapes order['fees'] can have after json.loads(fees_json or '{}'), or
   in an order dict built by a caller.  total is the number that
   float(total_amount) gives where there is one:
     absent          no 'fees' key
     none            None
     empty           {}
     falsy_other     a falsy value that is not a mapping ([], "", 0)
     not_a_mapping   a truthy value that is not a mapping ([1], "abc", 5)
     no_total        a mapping without 'total_amount'
     number          total_amount a finite float or a small int
     numeric_string  total_amount a string float() parses
     non_numeric     total_amount a string float() rejects ('N/A', '')
     null_total      total_amount None, a list or a mapping *)
FeeShapes == {"absent", "none", "empty", "falsy_other", "not_a_mapping", "no_total",
              "number", "numeric_string", "non_numeric", "null_total"}

(* SettlementCalculator._extract_fees: whether it raised, and the value
   returned.  `not fees` returns 0; fees.get on a value that is not a mapping
   raises AttributeError, which the except clause (ValueError, TypeError)
   does not catch; float(total) raising ValueError or TypeError returns 0. *)
extract_fees(order) ==
    IF order.fees.shape \in {"absent", "none", "empty", "falsy_other"}
    THEN [raised |-> FALSE, value |-> Zero]
    ELSE IF order.fees.shape = "not_a_mapping"
    THEN [raised |-> TRUE, value |-> Zero]
    ELSE IF order.fees.shape = "no_total"
    THEN [raised |-> FALSE, value |-> Zero]
    ELSE IF order.fees.shape \in {"number", "numeric_string"}
    THEN [raised |-> FALSE, value |-> order.fees.total]
    ELSE [raised |-> FALSE, value |-> Zero]

\* SettlementCalculator._parse_date
parse_date(executed_at) == executed_at.date

\* SettlementCalculator._get_rate
order_rate(rates, api, order) ==
    get_rate(rates, api, parse_date(order.executed_at), order.currency, "CNY")

(* SettlementCalculator.settle_buy: the amount, and the rate table
   afterwards.  The rate is looked up (and cached) first; a raise of
   _extract_fees leaves settle_buy as it is. *)
settle_buy(rates, api, order) ==
    LET g == order_rate(rates, api, order)
        f == extract_fees(order)
    IN  [raised |-> f.raised,
         amount |-> IF f.raised THEN Zero
                    ELSE RMul(RAdd(gross(order), f.value), g.rate),
         rate |-> g.rate, rates |-> g.rates]

(* SettlementCalculator.settle_sell_with_rate *)
settle_sell_with_rate(rates, api, order) ==
    LET g == order_rate(rates, api, order)
        f == extract_fees(order)
    IN  [raised |-> f.raised,
         amount |-> IF f.raised THEN Zero
                    ELSE RMul(RSub(gross(order), f.value), g.rate),
         rate |-> g.rate, rates |-> g.rates]

----------------------------------------------------------------------------
(* database.py: queries on the orders table *)

Rows(tbl) == {tbl[i] : i \in DOMAIN tbl}

RECURSIVE SortByTime(_)
SortByTime(S) ==
    IF S = {} THEN <<>>
    ELSE LET first == CHOOSE x \in S : \A y \in S : TimeLe(x.executed_at, y.executed_at)
         IN  <<first>> \o SortByTime(S \ {first})

\* WHERE strftime('%Y', executed_at) = ? AND side = 'SELL'
has_sell_in(tbl, symbol, year) ==
    \E o \in Rows(tbl) :
        o.symbol = symbol /\ YearOf(o.executed_at.date) = year /\ o.side = "SELL"

\* the symbols with any order in the year, whatever its side
get_symbols_with_orders(tbl, year) ==
    SelectSeq(Symbols, LAMBDA sym :
        \E o \in Rows(tbl) : o.symbol = sym /\ YearOf(o.executed_at.date) = year)

\* DatabaseManager.get_symbols_with_sells: SELECT DISTINCT symbol ... ORDER BY symbol
get_symbols_with_sells(tbl, year) ==
    SelectSeq(Symbols, LAMBDA sym : has_sell_in(tbl, sym, year))

\* the replay reads every stored order, whatever its year
until_end_of_year_never(executed_at, end_year) == TRUE

\* the replay reads the target year only
until_end_of_year_only(executed_at, end_year) == YearOf(executed_at.date) = end_year

\* executed_at <= f"{end_year}-12-31T23:59:59"
until_end_of_year(executed_at, end_year) == YearOf(executed_at.date) <= end_year

\* the replay reads the orders of every instrument
get_orders_until_any(tbl, symbol, end_year) ==
    SortByTime({o \in Rows(tbl) : until_end_of_year(o.executed_at, end_year)})

\* DatabaseManager.get_orders_until: ... WHERE symbol = ? AND executed_at <= ? ORDER BY executed_at
get_orders_until(tbl, symbol, end_year) ==
    SortByTime({o \in Rows(tbl) :
                  o.symbol = symbol /\ until_end_of_year(o.executed_at, end_year)})

----------------------------------------------------------------------------
(* calculator.py *)

\* Config.CAPITAL_GAINS_TAX_RATE = 0.20
tax_rate == <<1, 5>>

RMax0(x) == IF RLt(x, Zero) THEN Zero ELSE x

\* every replayed order counts as in the year
in_year_always(order, year) == TRUE

\* TaxCalculator._in_year
in_year(order, year) == YearOf(order.executed_at.date) = year

\* a transaction with proceeds and cost basis in each other's column
build_tx_swapped(order, rate, proceeds_cny, cost_basis_cny, gain_loss) ==
    [order_id |-> order.order_id, symbol |-> order.symbol,
     date |-> order.executed_at.date,
     quantity |-> order.quantity, price |-> order.price,
     currency |-> order.currency, rate |-> rate,
     proceeds_cny |-> cost_basis_cny, cost_basis_cny |-> proceeds_cny,
     gain_loss |-> gain_loss, tax |-> <<0, 1>>]

\* a transaction taxed on its gain_loss with its sign: a loss has a negative tax
build_tx_signed_tax(order, rate, proceeds_cny, cost_basis_cny, gain_loss) ==
    [order_id |-> order.order_id, symbol |-> order.symbol,
     date |-> parse_date(order.executed_at),
     quantity |-> order.quantity, price |-> order.price,
     currency |-> order.currency, rate |-> rate,
     proceeds_cny |-> proceeds_cny, cost_basis_cny |-> cost_basis_cny,
     gain_loss |-> gain_loss, tax |-> RMul(gain_loss, tax_rate)]

\* TaxCalculator._build_tx
build_tx(order, rate, proceeds_cny, cost_basis_cny, gain_loss) ==
    [order_id |-> order.order_id, symbol |-> order.symbol,
     date |-> parse_date(order.executed_at),
     quantity |-> order.quantity, price |-> order.price,
     currency |-> order.currency, rate |-> rate,
     proceeds_cny |-> proceeds_cny, cost_basis_cny |-> cost_basis_cny,
     gain_loss |-> gain_loss, tax |-> RMul(RMax0(gain_loss), tax_rate)]

\* a loss added to total_losses with its sign
emit_signed(acc, tx) ==
    [acc EXCEPT !.transactions = Append(@, tx),
                !.total_gains  = IF RLt(Zero, tx.gain_loss) THEN RAdd(@, tx.gain_loss) ELSE @,
                !.total_losses = IF RLt(Zero, tx.gain_loss) THEN @
                                 ELSE RAdd(@, tx.gain_loss)]

\* transactions.append(tx); total_gains / total_losses
emit(acc, tx) ==
    [acc EXCEPT !.transactions = Append(@, tx),
                !.total_gains  = IF RLt(Zero, tx.gain_loss) THEN RAdd(@, tx.gain_loss) ELSE @,
                !.total_losses = IF RLt(Zero, tx.gain_loss) THEN @
                                 ELSE RAdd(@, RSub(Zero, tx.gain_loss))]

\* a local variable: the value v is computed once and named in F
Let(v, F(_)) == CHOOSE out \in {F(x) : x \in {v}} : TRUE

\* a buy-to-close reported like a sale: what is paid now taken as the proceeds
bought_as_sale(acc, order, year, api, s, r) ==
    LET a == [acc EXCEPT !.rates = s.rates, !.pool = r.pool]
    IN  IF r.raised THEN [a EXCEPT !.raised = TRUE]
        ELSE IF RLt(Zero, r.ret) /\ in_year(order, year)
        THEN emit(a, build_tx(order, s.rate, s.amount, r.ret, RSub(s.amount, r.ret)))
        ELSE a

\* the BUY branch once the order is settled (s) and the pool has bought (r)
bought(acc, order, year, api, s, r) ==
    LET a == [acc EXCEPT !.rates = s.rates, !.pool = r.pool]
    IN  IF r.raised THEN [a EXCEPT !.raised = TRUE]
        ELSE IF RLt(Zero, r.ret) /\ in_year(order, year)
        THEN Let(order_rate(s.rates, api, order), LAMBDA g :
                 emit([a EXCEPT !.rates = g.rates],
                      build_tx(order, g.rate, r.ret, s.amount, RSub(r.ret, s.amount))))
        ELSE a

\* the SELL branch once the order is settled (s) and the pool has sold (r)
sold(acc, order, year, s, r) ==
    LET a == [acc EXCEPT !.rates = s.rates, !.pool = r.pool]
    IN  IF r.raised THEN [a EXCEPT !.raised = TRUE]
        ELSE IF RLt(Zero, r.ret) /\ in_year(order, year)
        THEN emit(a, build_tx(order, s.rate, s.amount, r.ret, RSub(s.amount, r.ret)))
        ELSE a

(* TaxCalculator._process_symbol: the body of the loop for one order.  acc
   holds the pool, the rate table, the transactions and the running totals;
   raised is set when the pool raised, which ends the run. *)
process_order(acc, order, year, api) ==
    IF order.side = "BUY"
    THEN Let(settle_buy(acc.rates, api, order), LAMBDA s :
             IF s.raised THEN [acc EXCEPT !.rates = s.rates, !.raised = TRUE]
             ELSE Let(buy(acc.pool, order.quantity, s.amount), LAMBDA r :
                      bought(acc, order, year, api, s, r)))
    ELSE IF order.side = "SELL"
    THEN Let(settle_sell_with_rate(acc.rates, api, order), LAMBDA s :
             IF s.raised THEN [acc EXCEPT !.rates = s.rates, !.raised = TRUE]
             ELSE Let(sell(acc.pool, order.quantity, s.amount), LAMBDA r :
                      sold(acc, order, year, s, r)))
    ELSE acc

RECURSIVE replay(_, _, _, _, _)
replay(acc, os, i, year, api) ==
    IF acc.raised \/ i > Len(os) THEN acc
    ELSE Let(process_order(acc, os[i], year, api), LAMBDA next :
             replay(next, os, i + 1, year, api))

\* the pool, rate table, transactions and totals before the first order
NewRun(rates) ==
    [pool |-> NewPool, rates |-> rates, transactions |-> <<>>,
     total_gains |-> Zero, total_losses |-> Zero, raised |-> FALSE]

(* TaxCalculator._process_symbol *)
process_symbol(tbl, rates, symbol, year, api) ==
    Let(get_orders_until(tbl, symbol, year), LAMBDA os :
        Let(replay(NewRun(rates), os, 1, year, api), LAMBDA acc :
            [raised |-> acc.raised, rates |-> acc.rates,
             transactions |-> acc.transactions,
             summary |-> [symbol |-> symbol, gains |-> acc.total_gains,
                          losses |-> acc.total_losses,
                          remaining_qty |-> acc.pool.quantity,
                          remaining_cost |-> acc.pool.total_cost]]))

\* TaxCalculator._empty_result
empty_result(year) ==
    [raised |-> FALSE, year |-> year, total_gains |-> Zero, total_losses |-> Zero,
     net_gains |-> Zero, total_tax |-> Zero, details |-> <<>>, summary |-> <<>>]

\* the pool's ValueError swallowed: the caller gets the empty result
raised_as_empty(year) == empty_result(year)

\* what the caller of calculate has when the pool's ValueError came through
raised_result(year) == [empty_result(year) EXCEPT !.raised = TRUE]

\* each symbol netted and floored at 0 before it is added to the totals
add_symbol_netted(res, sr) ==
    [res EXCEPT !.details = @ \o sr.transactions,
                !.summary = Append(@, sr.summary),
                !.total_gains = RAdd(@, RMax0(RSub(sr.summary.gains, sr.summary.losses)))]

\* the result with one symbol's transactions and summary added
add_symbol(res, sr) ==
    [res EXCEPT !.details = @ \o sr.transactions,
                !.summary = Append(@, sr.summary),
                !.total_gains = RAdd(@, sr.summary.gains),
                !.total_losses = RAdd(@, sr.summary.losses)]

\* the loop of calculate over the symbols; a raise of the pool ends it
RECURSIVE calculate_symbols(_, _, _, _, _, _)
calculate_symbols(res, rates, tbl, symbols, i, api) ==
    IF i > Len(symbols) THEN [result |-> res, rates |-> rates]
    ELSE Let(process_symbol(tbl, rates, symbols[i], res.year, api), LAMBDA sr :
             IF sr.raised
             THEN [result |-> raised_result(res.year), rates |-> sr.rates]
             ELSE Let(add_symbol(res, sr), LAMBDA sum :
                      calculate_symbols(sum, sr.rates, tbl, symbols, i + 1, api)))

\* net_gains and total_tax of the finished result
totals(c) ==
    LET net == RMax0(RSub(c.result.total_gains, c.result.total_losses))
    IN  IF c.result.raised THEN c
        ELSE [c EXCEPT !.result.net_gains = net,
                       !.result.total_tax = RMul(net, tax_rate)]

(* TaxCalculator.calculate: the result, and the rate table afterwards *)
calculate(tbl, rates, year, api) ==
    Let(get_symbols_with_sells(tbl, year), LAMBDA symbols :
        IF symbols = <<>> THEN [result |-> empty_result(year), rates |-> rates]
        ELSE Let(calculate_symbols(empty_result(year), rates, tbl, symbols, 1, api),
                 LAMBDA c : totals(c)))

----------------------------------------------------------------------------
(* The database filled by import-data, and calculate run on it *)

\* what the rate service answers: nothing (no network, an error, no such rate)
ApiOutcomes == {Zero}

\* executed quantity and price of a filled order
Fills == {[quantity |-> Lot, price |-> R(1)], [quantity |-> 2 * Lot, price |-> R(2)]}

\* the day of a year on which its orders are executed
TradingDay(year) == (year - FirstYear) * 365 + 100

LastYear(tbl) == IF tbl = <<>> THEN FirstYear ELSE YearOf(tbl[Len(tbl)].executed_at.date)

InitCalc ==
    /\ quantity = NewPool.quantity
    /\ total_cost = NewPool.total_cost
    /\ history = NewPool.history
    /\ call = NoCall
    /\ orders = NoOrders
    /\ exchange_rates = NoRates
    /\ results = NoResults
    /\ probe = NoProbe
    /\ fetch = NoFetch

\* ExchangeRateManager.batch_fetch for the one date and currency of the order
batch_fetch(rates, api, order) == order_rate(rates, api, order).rates

(* cli.py import_data for one filled order of the broker, executed in one of
   the given years: fetch_orders parses it (fees {}), save_orders stores it,
   batch_fetch caches the day's rate.  Orders reach the database in the order
   of their execution. *)
Import(years, max) ==
    /\ results = NoResults
    /\ Len(orders) < max
    /\ \E sym \in Rows(Symbols), side \in {"BUY", "SELL"}, fill \in Fills,
          year \in years, api \in ApiOutcomes :
          LET o == [order_id |-> Len(orders) + 1, symbol |-> sym, side |-> side,
                    quantity |-> fill.quantity, price |-> fill.price,
                    currency |-> "USD",
                    executed_at |-> [date |-> TradingDay(year), seq |-> Len(orders) + 1],
                    fees |-> NoFees]
          IN  /\ year >= LastYear(orders)
              /\ orders' = Append(orders, o)
              /\ exchange_rates' = batch_fetch(exchange_rates, api, o)
    /\ UNCHANGED <<results, poolVars, probe, fetch>>

(* cli.py calculate --year: TaxCalculator.calculate(year) for one of the
   given years *)
CalculateIn(years) ==
    /\ \E year \in years \ DOMAIN results, api \in ApiOutcomes :
          \E c \in {calculate(orders, exchange_rates, year, api)} :
              /\ results' = [y \in DOMAIN results \cup {year} |->
                                IF y = year THEN c.result ELSE results[y]]
              /\ exchange_rates' = c.rates
    /\ UNCHANGED <<orders, poolVars, probe, fetch>>

ImportData == Import(Years, MaxOrders)

Calculate == CalculateIn(Years)

NextCalc == ImportData \/ Calculate

SpecCalc == InitCalc /\ [][NextCalc]_vars

(* One year of trading: every order is executed in the target year, which is
   the year calculated *)
ImportYear == Import({DEFAULT_TAX_YEAR}, MaxTrades)

CalculateYear == CalculateIn({DEFAULT_TAX_YEAR})

NextYear == ImportYear \/ CalculateYear

SpecYear == InitCalc /\ [][NextYear]_vars

----------------------------------------------------------------------------
(* The settlement calculator and the rate manager called on their own, on a
   rate table that earlier calls of get_rate filled.  The rate table is
   filled by get_rate up to MaxRates rates; a settlement or a multiplier
   asked for is the last call looked at: a rate lookup that could follow it
   is one that could have been made in its place. *)

\* the call comes after rate lookups only
AfterLookups == probe.op \in {"none", "get_rate"}

\* what the rate service answers: nothing, or a rate for the day
ApiAnswers == {Zero, <<73, 10>>}

\* currencies with and without an entry in CNY_RATES
Currencies == {"USD", "JPY"}

\* days asked about: a day, the day after, and a day more than 7 days later
RateDays == {0, 1, 9}

RateDates == {TradingDay(DEFAULT_TAX_YEAR) + d : d \in RateDays}

\* the days the orders settled are executed on
OrderDates == {TradingDay(DEFAULT_TAX_YEAR), TradingDay(DEFAULT_TAX_YEAR) + 1}

\* executed quantity (in shares or contracts) and price of the orders settled
SettleFills == {[quantity |-> 30, price |-> R(580)], [quantity |-> 2, price |-> <<32, 5>>]}

\* the fee data of the orders settled, one of each shape; a total of 5
FeeData ==
    {[shape |-> sh,
      total |-> IF sh \in {"number", "numeric_string"} THEN R(5) ELSE Zero] :
        sh \in FeeShapes}

SettleOrders(side) ==
    {[order_id |-> 1, symbol |-> sym, side |-> side,
      quantity |-> fill.quantity, price |-> fill.price, currency |-> cur,
      executed_at |-> [date |-> date, seq |-> 1], fees |-> fees] :
        sym \in Rows(Symbols), fill \in SettleFills, cur \in Currencies,
        date \in OrderDates, fees \in FeeData}

\* ExchangeRateManager.get_rate(date, from_currency, 'CNY')
GetRate ==
    /\ AfterLookups
    /\ Cardinality(DOMAIN exchange_rates) < MaxRates
    /\ \E date \in RateDates, cur \in Currencies, api \in ApiAnswers :
          \E g \in {get_rate(exchange_rates, api, date, cur, "CNY")} :
              /\ exchange_rates' = g.rates
              /\ probe' = [op |-> "get_rate", date |-> date, currency |-> cur,
                           api |-> api, rates |-> exchange_rates, rate |-> g.rate]
    /\ UNCHANGED <<orders, results, poolVars, fetch>>

\* SettlementCalculator.settle_buy(order)
SettleBuy ==
    /\ AfterLookups
    /\ \E o \in SettleOrders("BUY"), api \in ApiOutcomes :
          \E s \in {settle_buy(exchange_rates, api, o)} :
              /\ exchange_rates' = s.rates
              /\ probe' = [op |-> "settle_buy", order |-> o, api |-> api,
                           rates |-> exchange_rates, raised |-> s.raised,
                           amount |-> s.amount, rate |-> s.rate]
    /\ UNCHANGED <<orders, results, poolVars, fetch>>

\* SettlementCalculator.settle_sell_with_rate(order)
SettleSell ==
    /\ AfterLookups
    /\ \E o \in SettleOrders("SELL"), api \in ApiOutcomes :
          \E s \in {settle_sell_with_rate(exchange_rates, api, o)} :
              /\ exchange_rates' = s.rates
              /\ probe' = [op |-> "settle_sell_with_rate", order |-> o, api |-> api,
                           rates |-> exchange_rates, raised |-> s.raised,
                           amount |-> s.amount, rate |-> s.rate]
    /\ UNCHANGED <<orders, results, poolVars, fetch>>

\* get_multiplier(symbol)
GetMultiplier ==
    /\ AfterLookups
    /\ \E sym \in DOMAIN SymbolChars :
          probe' = [op |-> "get_multiplier", symbol |-> sym,
                    multiplier |-> get_multiplier(sym)]
    /\ UNCHANGED <<dbVars, poolVars, fetch>>

NextSettle == GetRate \/ SettleBuy \/ SettleSell \/ GetMultiplier

SpecSettle == InitCalc /\ [][NextSettle]_vars

----------------------------------------------------------------------------
(* LongBridgeClient.fetch_orders, one request a step.  Times are seconds
   from the start of the tax year. *)

\* timedelta(days=1), in seconds
SecondsPerDay == 86400

\* timedelta(days=89): the length of a full request window, in days
ChunkDays == 89

\* datetime(year, 12, 31, 23, 59, 59) of 2024, a year of 366 days
EndOfYear == 366 * SecondsPerDay - 1

\* datetime(year, 1, 1), or --since, at midnight: the ranges of 1 .. MaxSpan
\* days that end with the tax year
FetchStarts == {EndOfYear + 1 - span * SecondsPerDay : span \in 1 .. MaxSpan}

\* chunk_start = chunk_end + timedelta(days=1)
next_chunk_start(chunk_end) == chunk_end + SecondsPerDay

\* fetch_orders(start, end) called by import_data: orders = [], chunk_start = start
FetchOrders ==
    /\ fetch.pc = "idle"
    /\ \E start \in FetchStarts :
          fetch' = [pc |-> "loop", start |-> start, end |-> EndOfYear,
                    chunk_start |-> start, requests |-> <<>>]
    /\ UNCHANGED <<dbVars, poolVars, probe>>

\* one turn of `while chunk_start < end`: history_orders(start_at=chunk_start,
\* end_at=chunk_end), then chunk_start = chunk_end + 1 day
Request ==
    /\ fetch.pc = "loop"
    /\ fetch.chunk_start < fetch.end
    /\ \E chunk_end \in {Min(fetch.chunk_start + ChunkDays * SecondsPerDay, fetch.end)} :
          fetch' = [fetch EXCEPT
                       !.requests = Append(@, [start_at |-> fetch.chunk_start,
                                               end_at |-> chunk_end]),
                       !.chunk_start = next_chunk_start(chunk_end)]
    /\ UNCHANGED <<dbVars, poolVars, probe>>

\* the loop ends: return orders
Return ==
    /\ fetch.pc = "loop"
    /\ ~(fetch.chunk_start < fetch.end)
    /\ fetch' = [fetch EXCEPT !.pc = "done"]
    /\ UNCHANGED <<dbVars, poolVars, probe>>

NextFetch == FetchOrders \/ Request \/ Return

SpecFetch == InitCalc /\ [][NextFetch]_vars

----------------------------------------------------------------------------
(* import-data, update-fees and import-data again on one database *)

\* DatabaseManager.save_orders: INSERT OR REPLACE by order_id.  The rows
\* stay in the order of their execution.
RECURSIVE save_orders(_, _)
save_orders(tbl, os) ==
    IF os = <<>> THEN tbl
    ELSE LET o == Head(os)
             stored == {k \in DOMAIN tbl : tbl[k].order_id = o.order_id}
         IN  save_orders(IF stored = {} THEN Append(tbl, o)
                         ELSE [k \in DOMAIN tbl |-> IF k \in stored THEN o ELSE tbl[k]],
                         Tail(os))

\* LongBridgeClient._parse_order of an order the broker has filled: 'fees': {}
parse_order(o) == [o EXCEPT !.fees = NoFees]

\* DatabaseManager.get_orders_missing_fees: fees_json NULL, '' or '{}'
get_orders_missing_fees(tbl) == {k \in DOMAIN tbl : tbl[k].fees = NoFees}

\* DatabaseManager.update_order_fees: UPDATE orders SET fees_json = ? WHERE order_id = ?
update_order_fees(tbl, order_id, fees) ==
    [k \in DOMAIN tbl |->
        IF tbl[k].order_id = order_id THEN [tbl[k] EXCEPT !.fees = fees] ELSE tbl[k]]

\* what the order detail of the broker gives for an order: nothing, or its
\* charges with a total
FeeAnswers == {NoFees, [shape |-> "number", total |-> R(5)]}

\* cli.py import_data, first import of an order executed in the tax year
ImportOrders == Import({DEFAULT_TAX_YEAR}, MaxOrders)

(* cli.py update_fees: for every order without fee data, fetch_order_detail
   and, when it gives fee data, update_order_fees *)
UpdateFees ==
    /\ get_orders_missing_fees(orders) # {}
    /\ \E answer \in [get_orders_missing_fees(orders) -> FeeAnswers] :
          orders' = [k \in DOMAIN orders |->
                        IF k \in DOMAIN answer /\ answer[k] # NoFees
                        THEN update_order_fees(orders, orders[k].order_id, answer[k])[k]
                        ELSE orders[k]]
    /\ UNCHANGED <<exchange_rates, results, poolVars, probe, fetch>>

(* cli.py import_data run again for the tax year: fetch_orders parses the
   broker's filled orders of the year, which are the orders stored;
   save_orders stores them; batch_fetch finds the day's rate cached. *)
Reimport ==
    /\ orders # <<>>
    /\ \E api \in ApiOutcomes :
          \E fetched \in {[k \in DOMAIN orders |-> parse_order(orders[k])]} :
              /\ orders' = save_orders(orders, fetched)
              /\ exchange_rates' = batch_fetch(exchange_rates, api, fetched[1])
    /\ UNCHANGED <<results, poolVars, probe, fetch>>

NextFees == ImportOrders \/ UpdateFees \/ Reimport

SpecFees == InitCalc /\ [][NextFees]_vars

----------------------------------------------------------------------------
(* Properties of the cost pool *)

Pre == call.pre

Done(op) == call.op = op /\ ~call.raised

\* the call closed (part of) a long position
ClosedLong == Done("sell") /\ is_long(Pre.quantity)

\* the call closed (part of) a short position
ClosedShort == Done("buy") /\ is_short(Pre.quantity)

\* the history record written by the closing step of the last call
CloseRecord == history[Len(Pre.history) + 1]

Last(h) == h[Len(h)]

(* C1: in every reachable pool state avg_cost is total_cost / |quantity|
   when |quantity| exceeds the tolerance and 0 when |quantity| is below it;
   the avg_cost_after stored with the latest history record is that value. *)
C1_AvgCost ==
    /\ Abs(quantity) > EPS =>
          avg_cost(quantity, total_cost) = RNorm(total_cost[1], total_cost[2] * Abs(quantity))
    /\ Abs(quantity) < EPS => avg_cost(quantity, total_cost) = Zero
    /\ history # <<>> => Last(history).avg_cost_after = avg_cost(quantity, total_cost)

C1_Witness ==
    /\ is_short(quantity) /\ ClosedShort
    /\ total_cost # Zero

(* C2 (as claimed): whenever |quantity| is below the tolerance, quantity and
   total_cost are exactly 0. *)
C2_FlatIsZero ==
    Abs(quantity) < EPS => quantity = 0 /\ total_cost = Zero

(* C3 (as claimed): a sell on a LONG pool of more than the held quantity
   raises and leaves quantity, total_cost and history as they were. *)
C3_OversellRaises ==
    (call.op = "sell" /\ is_long(Pre.quantity) /\ call.qty > Pre.quantity) =>
        /\ call.raised
        /\ Pool = Pre

(* C3 (amended): a sell on a LONG pool of more than the held quantity plus
   the tolerance raises and leaves quantity, total_cost and history as they
   were. *)
C3_OversellBeyondToleranceRaises ==
    (call.op = "sell" /\ is_long(Pre.quantity) /\ call.qty > Pre.quantity + EPS) =>
        /\ call.raised
        /\ quantity = Pre.quantity
        /\ total_cost = Pre.total_cost
        /\ history = Pre.history

C3_Witness ==
    /\ call.op = "sell" /\ call.raised
    /\ is_long(Pre.quantity) /\ call.qty > Pre.quantity + EPS
    /\ Len(history) > 1

(* C7 (as claimed): a sell of at most the held quantity on a LONG pool returns
   qty * (average cost before), lowers quantity by qty and total_cost by the
   value returned. *)
C7_SellClosesLong ==
    (ClosedLong /\ call.qty <= Pre.quantity) =>
        /\ call.ret = RMul(R(call.qty), avg_cost(Pre.quantity, Pre.total_cost))
        /\ quantity = Pre.quantity - call.qty
        /\ total_cost = RSub(Pre.total_cost, call.ret)

(* C7 (amended): such a sell returns qty * (average cost before) whatever the
   settled amount; it lowers quantity by qty and total_cost by the value
   returned, unless what remains is below the tolerance, and then quantity and
   total_cost are both 0.  The history records the cost basis, not the settled
   amount. *)
C7_SellClosesLongOrSnaps ==
    (ClosedLong /\ call.qty <= Pre.quantity) =>
        /\ call.ret = RMul(R(call.qty), RDiv(Pre.total_cost, R(Pre.quantity)))
        /\ Last(history).amount = call.ret
        /\ IF Pre.quantity - call.qty < EPS
           THEN quantity = 0 /\ total_cost = Zero
           ELSE /\ quantity = Pre.quantity - call.qty
                /\ total_cost = RSub(Pre.total_cost, call.ret)

C7_Witness ==
    /\ ClosedLong
    /\ Pre.quantity - call.qty \in 1 .. (EPS - 1)
    /\ Pre.total_cost # Zero
    /\ call.amount # call.ret

(* C8 (as claimed): a sell of less than the held quantity leaves avg_cost as
   it was, and no closing call that leaves the pool non-flat changes
   avg_cost. *)
C8_CloseKeepsAverage ==
    /\ (ClosedLong /\ call.qty < Pre.quantity) =>
           avg_cost(quantity, total_cost) = avg_cost(Pre.quantity, Pre.total_cost)
    /\ ((ClosedLong \/ ClosedShort) /\ (is_long(quantity) \/ is_short(quantity))) =>
           avg_cost(quantity, total_cost) = avg_cost(Pre.quantity, Pre.total_cost)

(* C8 (amended): a closing call that leaves the pool on the side it was on
   (a sell that leaves it LONG, a buy that leaves it SHORT) does not change
   avg_cost. *)
C8_PartialCloseKeepsAverage ==
    /\ (ClosedLong /\ is_long(quantity)) =>
           avg_cost(quantity, total_cost) = avg_cost(Pre.quantity, Pre.total_cost)
    /\ (ClosedShort /\ is_short(quantity)) =>
           avg_cost(quantity, total_cost) = avg_cost(Pre.quantity, Pre.total_cost)

C8_Witness ==
    /\ ClosedLong /\ is_long(quantity)
    /\ Len(Pre.history) > 1
    /\ Pre.history[1].side = "BUY" /\ Pre.history[2].side = "BUY"
    /\ Pre.history[1].amount # Pre.history[2].amount
    /\ call.amount # call.ret

(* C9 (as claimed): a buy on a SHORT pool closes closeQty = min(qty, |quantity|)
   units: it returns closeQty * (average proceeds before), and its closing
   step moves quantity toward zero by closeQty and lowers total_cost by the
   value returned. *)
C9_BuyClosesShort ==
    ClosedShort =>
        LET closeQty == Min(call.qty, Abs(Pre.quantity))
        IN  /\ call.ret = RMul(R(closeQty), avg_cost(Pre.quantity, Pre.total_cost))
            /\ CloseRecord.quantity_after = Pre.quantity + closeQty
            /\ CloseRecord.total_cost_after = RSub(Pre.total_cost, call.ret)

(* C9 (amended): as claimed, except that when fewer units than the tolerance
   remain short after the closing step, quantity and total_cost are both 0
   after it.  The value returned is closeQty * (average proceeds before)
   whatever the settled amount. *)
C9_BuyClosesShortOrSnaps ==
    ClosedShort =>
        LET closeQty == Min(call.qty, Abs(Pre.quantity))
        IN  /\ call.ret = RMul(R(closeQty), RDiv(Pre.total_cost, R(-Pre.quantity)))
            /\ CloseRecord.side = "BUY"
            /\ CloseRecord.quantity = closeQty
            /\ CloseRecord.amount = call.ret
            /\ IF Abs(Pre.quantity + closeQty) < EPS
               THEN /\ CloseRecord.quantity_after = 0
                    /\ CloseRecord.total_cost_after = Zero
               ELSE /\ CloseRecord.quantity_after = Pre.quantity + closeQty
                    /\ CloseRecord.total_cost_after = RSub(Pre.total_cost, call.ret)

C9_Witness ==
    /\ ClosedShort
    /\ call.qty < -Pre.quantity
    /\ is_short(quantity)
    /\ call.amount # call.ret

(* C10 (as claimed): a buy on a SHORT pool of size s with qty > s ends LONG
   with quantity = qty - s and total_cost = settledAmount * (qty - s) / qty. *)
C10_FlipOpensLong ==
    (ClosedShort /\ call.qty > -Pre.quantity) =>
        LET s == -Pre.quantity
        IN  /\ is_long(quantity)
            /\ quantity = call.qty - s
            /\ total_cost = RMul(call.amount, RNorm(call.qty - s, call.qty))

(* C10 (amended): when qty exceeds s by more than the tolerance the pool ends
   LONG with quantity = qty - s and total_cost = settledAmount * (qty - s) / qty;
   when it exceeds s by no more than the tolerance the remainder is dropped
   and the pool ends with quantity = 0 and total_cost = 0. *)
C10_FlipOpensLongBeyondTolerance ==
    (ClosedShort /\ call.qty > -Pre.quantity) =>
        LET s == -Pre.quantity
        IN  IF call.qty - s > EPS
            THEN /\ is_long(quantity)
                 /\ quantity = call.qty - s
                 /\ total_cost = RMul(call.amount, RNorm(call.qty - s, call.qty))
            ELSE quantity = 0 /\ total_cost = Zero

C10_Witness ==
    /\ ClosedShort
    /\ call.qty + Pre.quantity > EPS
    /\ call.amount # Zero
    /\ Len(history) = Len(Pre.history) + 2


(* C11: a call that only opens or extends a position (a buy that finds the
   pool not short, a sell with a positive settled amount that finds it not
   long) goes through, changes quantity by exactly +qty or -qty, adds exactly
   the settled amount to total_cost and returns 0. *)
C11_OpenAddsExactly ==
    /\ (call.op = "buy" /\ call.qty > 0 /\ call.amount[1] >= 0 /\ ~is_short(Pre.quantity)) =>
           /\ ~call.raised
           /\ quantity = Pre.quantity + call.qty
           /\ total_cost = RNorm(Pre.total_cost[1] * call.amount[2]
                                    + call.amount[1] * Pre.total_cost[2],
                                 Pre.total_cost[2] * call.amount[2])
           /\ call.ret = Zero
    /\ (call.op = "sell" /\ call.qty > 0 /\ call.amount[1] > 0 /\ ~is_long(Pre.quantity)) =>
           /\ ~call.raised
           /\ quantity = Pre.quantity - call.qty
           /\ total_cost = RNorm(Pre.total_cost[1] * call.amount[2]
                                    + call.amount[1] * Pre.total_cost[2],
                                 Pre.total_cost[2] * call.amount[2])
           /\ call.ret = Zero

\* a short extended by a sell, and a long opened by a buy below the tolerance
C11_Witness ==
    \/ /\ Done("sell") /\ is_short(Pre.quantity) /\ Pre.total_cost # Zero
       /\ call.amount # Zero
    \/ /\ Done("buy") /\ Pre.quantity = 0 /\ call.qty < EPS /\ call.amount # Zero
       /\ Len(history) > 1

(* C12 (as claimed): sell(qty, proceeds) with qty > 0 and proceeds > 0 on a
   new (flat) pool followed by buy(qty, cost) with cost >= 0 returns proceeds
   and leaves quantity = 0 and total_cost = 0. *)
C12_ShortRoundTrip ==
    (/\ call.op = "buy" /\ call.amount[1] >= 0
     /\ Len(Pre.history) = 1
     /\ Pre.history[1].side = "SELL"
     /\ Pre.history[1].quantity = call.qty) =>
        /\ ~call.raised
        /\ call.ret = Pre.history[1].amount
        /\ quantity = 0
        /\ total_cost = Zero

\* the history is a run of buys followed by a run of sells
BuysThenSells(h) ==
    \E n \in 1 .. Len(h) - 1 :
        \A i \in DOMAIN h : h[i].side = (IF i <= n THEN "BUY" ELSE "SELL")

RECURSIVE SumQty(_, _, _)
SumQty(h, side, i) ==
    IF i = 0 THEN 0
    ELSE SumQty(h, side, i - 1) + (IF h[i].side = side THEN h[i].quantity ELSE 0)

RECURSIVE SumBought(_, _)
SumBought(h, i) ==
    IF i = 0 THEN Zero
    ELSE IF h[i].side = "BUY" THEN RAdd(SumBought(h, i - 1), h[i].amount)
    ELSE SumBought(h, i - 1)

\* what the sell recorded as h[i] returned: its cost basis when it found the
\* pool long, 0 when it opened a short
ReturnedBySell(h, i) ==
    IF i > 1 /\ is_long(h[i - 1].quantity_after) THEN h[i].amount ELSE Zero

RECURSIVE SumReturned(_, _)
SumReturned(h, i) ==
    IF i = 0 THEN Zero
    ELSE IF h[i].side = "SELL" THEN RAdd(SumReturned(h, i - 1), ReturnedBySell(h, i))
    ELSE SumReturned(h, i - 1)

(* C13 (as claimed): after buys on a new pool followed by sells whose
   quantities sum to the bought quantity, quantity and total_cost are 0 and
   the values the sells returned sum to the settled amounts of the buys. *)
C13_LongRoundTrip ==
    (/\ BuysThenSells(history)
     /\ SumQty(history, "BUY", Len(history)) = SumQty(history, "SELL", Len(history))) =>
        /\ quantity = 0
        /\ total_cost = Zero
        /\ SumReturned(history, Len(history)) = SumBought(history, Len(history))

\* the failed call left the pool as it was
Rejected ==
    /\ call.raised
    /\ quantity = Pre.quantity
    /\ total_cost = Pre.total_cost
    /\ history = Pre.history

(* C14: in every pool state a buy with qty <= 0, a buy with a negative
   settled amount, a sell with qty <= 0, and a sell with a settled amount
   <= 0 that finds the pool not long, raise and leave quantity, total_cost
   and history unchanged. *)
C14_InvalidInputRaises ==
    /\ (call.op = "buy" /\ call.qty <= 0) => Rejected
    /\ (call.op = "buy" /\ call.amount[1] < 0) => Rejected
    /\ (call.op = "sell" /\ call.qty <= 0) => Rejected
    /\ (call.op = "sell" /\ ~is_long(Pre.quantity) /\ call.amount[1] <= 0) => Rejected

\* a sell without proceeds on a short pool that has a history
C14_Witness ==
    /\ call.op = "sell" /\ call.qty > 0 /\ call.amount = Zero
    /\ is_short(Pre.quantity) /\ Pre.total_cost # Zero
    /\ Rejected

\* the side a call writes into the history
SideOf(op) == IF op = "buy" THEN "BUY" ELSE "SELL"

\* the records the last call appended
Appended == SubSeq(history, Len(Pre.history) + 1, Len(history))

\* the last call left the records it found as they were
KeptEarlier ==
    /\ Len(history) >= Len(Pre.history)
    /\ SubSeq(history, 1, Len(Pre.history)) = Pre.history

\* the last call was a buy of more than the short position it found
Flipped ==
    /\ ClosedShort
    /\ call.qty - Min(call.qty, Abs(Pre.quantity)) > EPS

(* C21 (as claimed): the history has one record per operation: a successful
   call appends exactly one record, with the side of the call, and changes
   no earlier record; a call that raises appends nothing. *)
C21_OneRecordPerCall ==
    /\ call.op \in {"buy", "sell"} /\ ~call.raised =>
           /\ KeptEarlier
           /\ Len(Appended) = 1
           /\ Appended[1].side = SideOf(call.op)
    /\ call.raised => history = Pre.history

(* C21 (amended): the history is append-only: a successful call appends one
   record with the side of the call, except a buy of more than the short
   position it closes, which appends two BUY records (the close, then the
   long it opens); no call changes an earlier record, and a call that
   raises appends nothing. *)
C21_AppendOnlyHistory ==
    /\ call.op \in {"buy", "sell"} /\ ~call.raised =>
           /\ KeptEarlier
           /\ Len(Appended) = (IF Flipped THEN 2 ELSE 1)
           /\ \A i \in 1 .. Len(Appended) : Appended[i].side = SideOf(call.op)
           /\ Last(history).quantity_after = quantity
           /\ Last(history).total_cost_after = total_cost
    /\ call.raised => history = Pre.history

\* a buy of more than the short position appended its two records behind
\* the record of the sale that opened the short
C21_Witness ==
    /\ Flipped
    /\ Len(Pre.history) >= 1
    /\ Last(Pre.history).side = "SELL"
    /\ Len(history) = Len(Pre.history) + 2
    /\ is_long(quantity)

(* C28 (as claimed): every successful buy on a SHORT pool and every
   successful sell on a LONG pool returns a strictly positive cost basis,
   and every other successful call returns zero. *)
C28_PositiveBasisIffClosing ==
    call.op \in {"buy", "sell"} /\ ~call.raised =>
        IF ClosedLong \/ ClosedShort
        THEN RLt(Zero, call.ret)
        ELSE call.ret = Zero

(* C29 (as claimed): sell with a negative settled amount raises in every
   pool state, a LONG pool included, and leaves the pool as it was. *)
C29_NegativeProceedsRaise ==
    (call.op = "sell" /\ call.amount[1] < 0) => Rejected

\* quantity and total_cost of the pool when the step of record i began
QtyBefore(i) == IF i = 1 THEN 0 ELSE history[i - 1].quantity_after

CostBefore(i) == IF i = 1 THEN Zero ELSE history[i - 1].total_cost_after

\* record i is of a closing step: a SELL on a long, a BUY on a short; its
\* amount is the cost basis returned, the amount of any other record is the
\* amount added to the pool
ClosingStep(i) ==
    \/ history[i].side = "SELL" /\ is_long(QtyBefore(i))
    \/ history[i].side = "BUY" /\ is_short(QtyBefore(i))

\* the closing step of record i left less than the tolerance and was
\* snapped to flat
SnappedStep(i) ==
    /\ ClosingStep(i)
    /\ Abs(IF history[i].side = "SELL" THEN QtyBefore(i) - history[i].quantity
           ELSE QtyBefore(i) + history[i].quantity) < EPS

\* amounts added by the opening steps minus cost bases returned by the
\* closing steps, over records from .. Len(history)
RECURSIVE NetAdded(_)
NetAdded(from) ==
    IF from > Len(history) THEN Zero
    ELSE RAdd(IF ClosingStep(from) THEN RSub(Zero, history[from].amount)
              ELSE history[from].amount,
              NetAdded(from + 1))

\* the record after the last step that was snapped to flat
SinceSnap ==
    LET snaps == {i \in DOMAIN history : SnappedStep(i)}
    IN  IF snaps = {} THEN 1
        ELSE 1 + CHOOSE i \in snaps : \A j \in snaps : j <= i

(* C31 (as claimed): after any sequence of successful operations on a fresh
   pool, total_cost is the sum of the amounts added by opening and extending
   steps minus the sum of the cost bases returned by closing steps. *)
C31_CostConserved == total_cost = NetAdded(1)

(* C31 (amended): total_cost is the sum of the amounts added by opening and
   extending steps minus the sum of the cost bases returned by closing steps,
   counted from the last closing step that left less than 1e-9 of quantity:
   such a step sets total_cost to 0, whatever was added and returned before.
   Every step of the last call changed total_cost by its amount in this way. *)
C31_CostConservedSinceSnap ==
    /\ total_cost = NetAdded(SinceSnap)
    /\ \A i \in Len(Pre.history) + 1 .. Len(history) :
          history[i].total_cost_after =
              (IF SnappedStep(i) THEN Zero
               ELSE IF ClosingStep(i) THEN RSub(CostBefore(i), history[i].amount)
               ELSE RAdd(CostBefore(i), history[i].amount))

\* a short opened, extended and closed in part: three steps, none snapped
C31_Witness ==
    /\ Len(history) = 3
    /\ SinceSnap = 1
    /\ history[1].side = "SELL" /\ history[2].side = "SELL"
    /\ ClosingStep(3) /\ is_short(quantity)
    /\ history[1].amount # history[2].amount
    /\ total_cost = NetAdded(1)

(* C32 (as claimed): in every reachable pool state total_cost >= 0, and
   total_cost > 0 whenever the pool is SHORT; avg_cost is never negative and
   no closing operation returns a negative cost basis. *)
C32_CostNeverNegative ==
    /\ RLe(Zero, total_cost)
    /\ is_short(quantity) => RLt(Zero, total_cost)
    /\ RLe(Zero, avg_cost(quantity, total_cost))
    /\ (ClosedLong \/ ClosedShort) => RLe(Zero, call.ret)

----------------------------------------------------------------------------
(* Properties of calculate.  orders holds the orders in the order of their
   execution, so the orders before orders[k] are orders[1 .. k-1]. *)

\* the settled amount of an order at the cached rate of its day
Settled(o) ==
    IF o.side = "BUY" THEN settle_buy(exchange_rates, Zero, o).amount
    ELSE settle_sell_with_rate(exchange_rates, Zero, o).amount

\* the call on the pool that an order stands for
PoolCall(pool, o) ==
    IF o.side = "BUY" THEN buy(pool, o.quantity, Settled(o))
    ELSE sell(pool, o.quantity, Settled(o))

(* the pool of a symbol after its orders among orders[1 .. k], the value
   returned for the last of them, and whether one of them raised *)
RECURSIVE Replayed(_, _)
Replayed(symbol, k) ==
    IF k = 0 THEN [pool |-> NewPool, raised |-> FALSE, ret |-> Zero]
    ELSE Let(Replayed(symbol, k - 1), LAMBDA b :
             IF orders[k].symbol # symbol \/ b.raised THEN b
             ELSE Let(PoolCall(b.pool, orders[k]), LAMBDA r :
                      [pool |-> r.pool, raised |-> r.raised, ret |-> r.ret]))

\* the pool of the order's symbol when the order arrives
Before(k) == Replayed(orders[k].symbol, k - 1)

After(k) == Replayed(orders[k].symbol, k)

OrderYear(k) == YearOf(orders[k].executed_at.date)

\* the number of orders executed up to the end of a year
Through(year) == Cardinality({k \in DOMAIN orders : OrderYear(k) <= year})

\* orders[k] closes (part of) a position: a SELL on a long, a BUY on a short
Closes(k) ==
    /\ ~After(k).raised
    /\ \/ orders[k].side = "SELL" /\ is_long(Before(k).pool.quantity)
       \/ orders[k].side = "BUY" /\ is_short(Before(k).pool.quantity)

\* the years calculated without a raise of the pool
Calculated == {y \in DOMAIN results : ~results[y].raised}

Details(y) == {results[y].details[i] : i \in DOMAIN results[y].details}

Reported(y, k) == \E tx \in Details(y) : tx.order_id = k

\* the quantity an order closes and the average cost it closes at
ClosedQty(k) == Min(orders[k].quantity, Abs(Before(k).pool.quantity))

AvgBefore(k) == RDiv(Before(k).pool.total_cost, R(Abs(Before(k).pool.quantity)))

\* the figure of a transaction that comes from the pool
BasisOf(tx) == IF orders[tx.order_id].side = "SELL" THEN tx.cost_basis_cny
               ELSE tx.proceeds_cny

(* C4: the cost basis of every transaction of calculate(Y) is the closed
   quantity times the average cost of the pool reached by replaying, in the
   order of execution, every earlier order of the instrument, those of the
   years before Y included; a SELL of Y that closes a long this way is
   reported with that basis, and an instrument with nothing but BUYs through
   Y has no transaction in calculate(Y). *)
C4_BasisFromWholeHistory ==
    \A y \in DOMAIN results :
        /\ \A tx \in Details(y) :
              /\ Closes(tx.order_id)
              /\ BasisOf(tx) = RMul(R(ClosedQty(tx.order_id)), AvgBefore(tx.order_id))
        /\ \A k \in DOMAIN orders :
              (y \in Calculated /\ OrderYear(k) = y /\ orders[k].side = "SELL" /\ Closes(k))
                  => Reported(y, k)
        /\ \A sym \in Rows(Symbols) :
              (\A k \in DOMAIN orders :
                    (orders[k].symbol = sym /\ OrderYear(k) <= y) => orders[k].side = "BUY")
                  => ~\E tx \in Details(y) : tx.symbol = sym

\* two buys at different prices in Y-1, the sale in Y, both years calculated
C4_Witness ==
    /\ DOMAIN results = Years
    /\ Len(orders) = 3
    /\ \A k \in 1 .. 3 : orders[k].symbol = "SPY.US"
    /\ orders[1].side = "BUY" /\ orders[2].side = "BUY" /\ orders[3].side = "SELL"
    /\ orders[1].price # orders[2].price
    /\ OrderYear(2) = DEFAULT_TAX_YEAR - 1 /\ OrderYear(3) = DEFAULT_TAX_YEAR
    /\ results[DEFAULT_TAX_YEAR - 1].details = <<>>
    /\ Len(results[DEFAULT_TAX_YEAR].details) = 1
    /\ results[DEFAULT_TAX_YEAR].details[1].cost_basis_cny =
          RMul(R(orders[3].quantity),
               RDiv(RAdd(Settled(orders[1]), Settled(orders[2])),
                    R(orders[1].quantity + orders[2].quantity)))

(* C5: every transaction in the details of calculate(Y) belongs to an order
   executed in Y; the orders of the years before Y are applied to the pool all
   the same: the remaining quantity and cost of each instrument reported are
   those of the pool after all its orders through the end of Y. *)
C5_OnlyTargetYearReported ==
    \A y \in DOMAIN results :
        /\ \A tx \in Details(y) :
              /\ OrderYear(tx.order_id) = y
              /\ YearOf(tx.date) = y
        /\ \A i \in DOMAIN results[y].summary :
              LET sm == results[y].summary[i]
                  p  == Replayed(sm.symbol, Through(y)).pool
              IN  /\ sm.remaining_qty = p.quantity
                  /\ sm.remaining_cost = p.total_cost

\* a closing order of Y-1 changed the pool and is not reported in Y
C5_Witness ==
    /\ DEFAULT_TAX_YEAR \in Calculated
    /\ Len(results[DEFAULT_TAX_YEAR].details) = 1
    /\ \E k \in DOMAIN orders :
          /\ OrderYear(k) = DEFAULT_TAX_YEAR - 1
          /\ Closes(k)
          /\ orders[k].symbol = results[DEFAULT_TAX_YEAR].details[1].symbol
          /\ After(k).pool.quantity # Before(k).pool.quantity
          /\ After(k).pool.total_cost # Before(k).pool.total_cost
          /\ ~Reported(DEFAULT_TAX_YEAR, k)
          /\ results[DEFAULT_TAX_YEAR].summary[1].remaining_qty = After(k).pool.quantity
                 - orders[results[DEFAULT_TAX_YEAR].details[1].order_id].quantity

\* the transactions of calculate(y) that belong to orders[k]
TxOf(y, k) == {i \in DOMAIN results[y].details : results[y].details[i].order_id = k}

(* C15: for every SELL executed in the target year that finds the pool of its
   instrument LONG, calculate emits exactly one transaction, with proceeds =
   the settled proceeds of the order, cost basis = the value pool.sell
   returned (order quantity times the average cost before the sale) and
   gain_loss = proceeds - cost basis. *)
C15_SellOnLongTaxed ==
    \A y \in Calculated :
        \A k \in DOMAIN orders :
            (orders[k].side = "SELL" /\ OrderYear(k) = y /\ is_long(Before(k).pool.quantity)) =>
                /\ Cardinality(TxOf(y, k)) = 1
                /\ \A i \in TxOf(y, k) :
                      LET tx == results[y].details[i]
                      IN  /\ tx.proceeds_cny = Settled(orders[k])
                          /\ tx.cost_basis_cny = After(k).ret
                          /\ tx.cost_basis_cny = RMul(R(orders[k].quantity), AvgBefore(k))
                          /\ tx.gain_loss = RSub(tx.proceeds_cny, tx.cost_basis_cny)

\* a sale of part of a long bought at another price, at a loss
C15_Witness ==
    /\ DEFAULT_TAX_YEAR \in Calculated
    /\ \E k \in DOMAIN orders :
          /\ orders[k].side = "SELL" /\ OrderYear(k) = DEFAULT_TAX_YEAR
          /\ is_long(Before(k).pool.quantity)
          /\ is_long(After(k).pool.quantity)
          /\ \E i \in TxOf(DEFAULT_TAX_YEAR, k) :
                RLt(results[DEFAULT_TAX_YEAR].details[i].gain_loss, Zero)

(* C16: for every BUY executed in the target year that finds the pool of its
   instrument SHORT, the instrument being one calculate processes (it has a
   SELL in that year), calculate emits exactly one transaction, with proceeds
   = the locked-in short proceeds pool.buy returned, cost = the settled cost
   of the order and gain_loss = proceeds - cost. *)
C16_BuyOnShortTaxed ==
    \A y \in Calculated :
        \A k \in DOMAIN orders :
            (/\ orders[k].side = "BUY" /\ OrderYear(k) = y
             /\ has_sell_in(orders, orders[k].symbol, y)
             /\ is_short(Before(k).pool.quantity)) =>
                /\ Cardinality(TxOf(y, k)) = 1
                /\ \A i \in TxOf(y, k) :
                      LET tx == results[y].details[i]
                      IN  /\ tx.proceeds_cny = After(k).ret
                          /\ tx.proceeds_cny = RMul(R(ClosedQty(k)), AvgBefore(k))
                          /\ tx.cost_basis_cny = Settled(orders[k])
                          /\ tx.gain_loss = RSub(tx.proceeds_cny, tx.cost_basis_cny)

\* a buy that closes a short of the same year and flips the pool to long
C16_Witness ==
    /\ DEFAULT_TAX_YEAR \in Calculated
    /\ \E k \in DOMAIN orders :
          /\ orders[k].side = "BUY" /\ OrderYear(k) = DEFAULT_TAX_YEAR
          /\ is_short(Before(k).pool.quantity)
          /\ is_long(After(k).pool.quantity)
          /\ \E i \in TxOf(DEFAULT_TAX_YEAR, k) :
                results[DEFAULT_TAX_YEAR].details[i].gain_loss # Zero

\* the replay of an instrument that calculate(y) processes raises
ReplayFails(y) ==
    \E sym \in Rows(Symbols) :
        /\ \E k \in DOMAIN orders :
              orders[k].symbol = sym /\ orders[k].side = "SELL" /\ OrderYear(k) = y
        /\ Replayed(sym, Through(y)).raised

(* C19: if the replay of an instrument with a SELL in the target year makes
   the pool raise, at an order of that year or of an earlier one,
   calculate(year) ends with the error: what its caller has is neither a
   result with transactions or summaries nor the empty result; and calculate
   ends with an error in no other case. *)
C19_FailedReplayAborts ==
    \A y \in DOMAIN results :
        /\ ReplayFails(y) =>
              /\ results[y].raised
              /\ results[y].details = <<>> /\ results[y].summary = <<>>
              /\ results[y] # [raised |-> FALSE, year |-> y, total_gains |-> Zero,
                               total_losses |-> Zero, net_gains |-> Zero,
                               total_tax |-> Zero, details |-> <<>>, summary |-> <<>>]
        /\ results[y].raised => ReplayFails(y)

\* an oversell of the year before aborts the calculation of the target year
C19_Witness ==
    /\ DEFAULT_TAX_YEAR \in DOMAIN results
    /\ results[DEFAULT_TAX_YEAR].raised
    /\ \E k \in DOMAIN orders :
          /\ OrderYear(k) = DEFAULT_TAX_YEAR - 1
          /\ After(k).raised /\ ~Before(k).raised
          /\ \E j \in DOMAIN orders :
                /\ orders[j].symbol = orders[k].symbol
                /\ orders[j].side = "SELL" /\ OrderYear(j) = DEFAULT_TAX_YEAR

(* C20: when no order executed in the target year is a SELL, calculate(year)
   does not fail and returns the empty result: the four totals 0, no details,
   no summary of any instrument. *)
C20_NoSellsEmptyResult ==
    \A y \in DOMAIN results :
        (~\E k \in DOMAIN orders : orders[k].side = "SELL" /\ OrderYear(k) = y) =>
            results[y] = [raised |-> FALSE, year |-> y, total_gains |-> Zero,
                          total_losses |-> Zero, net_gains |-> Zero,
                          total_tax |-> Zero, details |-> <<>>, summary |-> <<>>]

\* a year with buys only, after a year with a sale
C20_Witness ==
    /\ DEFAULT_TAX_YEAR \in DOMAIN results
    /\ results[DEFAULT_TAX_YEAR].summary = <<>>
    /\ \E k \in DOMAIN orders : orders[k].side = "BUY" /\ OrderYear(k) = DEFAULT_TAX_YEAR
    /\ \A k \in DOMAIN orders : OrderYear(k) = DEFAULT_TAX_YEAR => orders[k].side = "BUY"
    /\ \E k \in DOMAIN orders : orders[k].side = "SELL"

\* the gain of a transaction (0 for a loss) and its loss (0 for a gain)
GainOf(tx) == IF tx.gain_loss[1] > 0 THEN tx.gain_loss ELSE Zero

LossOf(tx) == IF tx.gain_loss[1] < 0 THEN <<-tx.gain_loss[1], tx.gain_loss[2]>> ELSE Zero

\* sums over the first n transactions of d, of the given symbols
RECURSIVE SumGains(_, _, _)
SumGains(d, syms, n) ==
    IF n = 0 THEN Zero
    ELSE RAdd(SumGains(d, syms, n - 1),
              IF d[n].symbol \in syms THEN GainOf(d[n]) ELSE Zero)

RECURSIVE SumLosses(_, _, _)
SumLosses(d, syms, n) ==
    IF n = 0 THEN Zero
    ELSE RAdd(SumLosses(d, syms, n - 1),
              IF d[n].symbol \in syms THEN LossOf(d[n]) ELSE Zero)

AllGains(y) == SumGains(results[y].details, Rows(Symbols), Len(results[y].details))

AllLosses(y) == SumLosses(results[y].details, Rows(Symbols), Len(results[y].details))

(* C17: in the result of calculate(year), net_gains is
   max(0, total_gains - total_losses) and total_tax is net_gains times the
   tax rate of 20%, total_gains and total_losses being the gains and the
   losses of the transactions of all instruments together: the floor at 0 is
   applied once, after the sums, so a loss of one instrument offsets the gain
   of another. *)
C17_NetAcrossInstruments ==
    \A y \in Calculated :
        LET net == RSub(AllGains(y), AllLosses(y))
        IN  /\ results[y].total_gains = AllGains(y)
            /\ results[y].total_losses = AllLosses(y)
            /\ results[y].net_gains = (IF net[1] < 0 THEN Zero ELSE net)
            /\ results[y].total_tax = RNorm(results[y].net_gains[1],
                                            5 * results[y].net_gains[2])

\* the loss of one instrument lowers the taxed gain of the other
C17_Witness ==
    /\ DEFAULT_TAX_YEAR \in Calculated
    /\ Len(results[DEFAULT_TAX_YEAR].summary) = 2
    /\ \E i, j \in 1 .. 2 :
          /\ i # j
          /\ results[DEFAULT_TAX_YEAR].summary[i].gains # Zero
          /\ results[DEFAULT_TAX_YEAR].summary[i].losses = Zero
          /\ results[DEFAULT_TAX_YEAR].summary[j].losses # Zero
    /\ results[DEFAULT_TAX_YEAR].net_gains # Zero
    /\ RLt(results[DEFAULT_TAX_YEAR].net_gains, results[DEFAULT_TAX_YEAR].total_gains)

RECURSIVE SumField(_, _, _)
SumField(sms, field, n) ==
    IF n = 0 THEN Zero ELSE RAdd(SumField(sms, field, n - 1), sms[n][field])

(* C18: for each instrument calculate processed, the gains of its summary are
   the sum of the positive gain_loss of its transactions, the losses the sum
   of the absolute values of the negative ones, remaining_qty and
   remaining_cost the quantity and total_cost of its pool after its last
   order through the end of the target year; total_gains and total_losses
   are the sums of the gains and losses of the summaries. *)
C18_SummaryPerInstrument ==
    \A y \in Calculated :
        LET d   == results[y].details
            sms == results[y].summary
        IN  /\ \A i \in DOMAIN sms :
                  LET p == Replayed(sms[i].symbol, Through(y)).pool
                  IN  /\ sms[i].gains = SumGains(d, {sms[i].symbol}, Len(d))
                      /\ sms[i].losses = SumLosses(d, {sms[i].symbol}, Len(d))
                      /\ sms[i].remaining_qty = p.quantity
                      /\ sms[i].remaining_cost = p.total_cost
            /\ \A i, j \in DOMAIN sms : sms[i].symbol = sms[j].symbol => i = j
            /\ results[y].total_gains = SumField(sms, "gains", Len(sms))
            /\ results[y].total_losses = SumField(sms, "losses", Len(sms))

\* one instrument with a gain and a loss, another left open
C18_Witness ==
    /\ DEFAULT_TAX_YEAR \in Calculated
    /\ Len(results[DEFAULT_TAX_YEAR].summary) = 2
    /\ \E i, j \in 1 .. 2 :
          /\ i # j
          /\ results[DEFAULT_TAX_YEAR].summary[i].gains # Zero
          /\ results[DEFAULT_TAX_YEAR].summary[i].losses # Zero
          /\ results[DEFAULT_TAX_YEAR].summary[j].remaining_qty # 0
          /\ results[DEFAULT_TAX_YEAR].summary[j].remaining_cost # Zero

(* C6 (as claimed): for every order executed in the target year that closes
   (part of) a position, a SELL closing a long or a BUY closing a short, the
   result of calculate(year) contains a transaction. *)
C6_EveryClosingOrderReported ==
    \A y \in Calculated :
        \A k \in DOMAIN orders :
            (OrderYear(k) = y /\ Closes(k)) => Reported(y, k)

(* C30 (as claimed): when a BUY of the target year closes a short of its
   instrument and buys more than the short held, the cost of its transaction
   is the share of the settled cost of the units that closed the short, and
   that cost plus the cost of the long the order opens is the settled cost
   of the order. *)
C30_FlipCostCountedOnce ==
    \A y \in Calculated :
        \A k \in DOMAIN orders :
            (/\ orders[k].side = "BUY" /\ OrderYear(k) = y
             /\ is_short(Before(k).pool.quantity)
             /\ orders[k].quantity - ClosedQty(k) > EPS) =>
                \A i \in TxOf(y, k) :
                    LET tx == results[y].details[i]
                    IN  /\ tx.cost_basis_cny =
                               RMul(Settled(orders[k]),
                                    RDiv(R(ClosedQty(k)), R(orders[k].quantity)))
                        /\ RAdd(tx.cost_basis_cny, After(k).pool.total_cost) =
                               Settled(orders[k])

\* the orders table with the orders of one instrument only
OwnOrders(symbol) == SelectSeq(orders, LAMBDA o : o.symbol = symbol)

\* the replay of one instrument on a database that holds no other instrument
Alone(symbol, y) == process_symbol(OwnOrders(symbol), exchange_rates, symbol, y, Zero)

\* the transactions of one instrument in the result of a year
DetailsOf(symbol, y) == SelectSeq(results[y].details, LAMBDA tx : tx.symbol = symbol)

(* C27: in every calculate(year) that completed, the summary and the
   transactions of each instrument are the ones a replay of that
   instrument's own orders from a fresh flat pool gives, on a database
   without any other instrument, whatever other instruments were processed
   before it and whatever years were calculated before; every transaction
   belongs to an instrument of the summary. *)
C27_InstrumentsIndependent ==
    \A y \in Calculated :
        /\ \A i \in DOMAIN results[y].summary :
              \E a \in {Alone(results[y].summary[i].symbol, y)} :
                  /\ ~a.raised
                  /\ results[y].summary[i] = a.summary
                  /\ DetailsOf(a.summary.symbol, y) = a.transactions
        /\ \A tx \in Details(y) :
              \E i \in DOMAIN results[y].summary : results[y].summary[i].symbol = tx.symbol
        /\ \A i, j \in DOMAIN results[y].summary :
              results[y].summary[i].symbol = results[y].summary[j].symbol => i = j

\* both years calculated; the later one has two instruments, the second of
\* them with a transaction, the first with an open position
C27_Witness ==
    /\ Calculated = Years
    /\ Len(results[DEFAULT_TAX_YEAR].summary) = 2
    /\ results[DEFAULT_TAX_YEAR].summary[1].remaining_qty # 0
    /\ DetailsOf(results[DEFAULT_TAX_YEAR].summary[2].symbol, DEFAULT_TAX_YEAR) # <<>>

\* the orders stored when the last order of a year had been imported
StoredThrough(y) == SubSeq(orders, 1, Through(y))

\* the transactions of an order in the results of all years calculated
AllTxOf(k) == {<<y, i>> \in Calculated \X (1 .. Len(orders)) : i \in TxOf(y, k)}

(* C33: the remaining_qty and remaining_cost that calculate(Y) reports for an
   instrument are the quantity and total_cost of the pool that the replay of
   a later year reaches just after the instrument's last order of year Y;
   the result of calculate(Y) is the one calculate(Y) gives on the store
   without the orders executed after Y; and every SELL that closes a long
   has its transaction in the result of exactly one year, the year it was
   executed in. *)
C33_YearsConsistent ==
    /\ \A y \in Calculated :
          /\ \A i \in DOMAIN results[y].summary :
                \E r \in {Replayed(results[y].summary[i].symbol, Through(y))} :
                    /\ results[y].summary[i].remaining_qty = r.pool.quantity
                    /\ results[y].summary[i].remaining_cost = r.pool.total_cost
          /\ results[y] = calculate(StoredThrough(y), exchange_rates, y, Zero).result
    /\ Calculated = Years =>
          \A k \in DOMAIN orders :
              (orders[k].side = "SELL" /\ Closes(k)) =>
                  /\ Cardinality(AllTxOf(k)) = 1
                  /\ TxOf(OrderYear(k), k) # {}

\* an instrument sold in both years: the position the first year reports is
\* open, and the sale of the second year closes (part of) it
C33_Witness ==
    /\ Calculated = Years
    /\ \E i \in DOMAIN results[FirstYear].summary,
          j \in DOMAIN results[DEFAULT_TAX_YEAR].summary :
          /\ results[FirstYear].summary[i].symbol =
                 results[DEFAULT_TAX_YEAR].summary[j].symbol
          /\ results[FirstYear].summary[i].remaining_qty > EPS
          /\ results[FirstYear].summary[i].remaining_qty >
                 results[DEFAULT_TAX_YEAR].summary[j].remaining_qty
    /\ results[FirstYear].details # <<>>
    /\ results[DEFAULT_TAX_YEAR].details # <<>>

\* the sum of the tax fields of the first n transactions
RECURSIVE SumTax(_, _)
SumTax(d, n) == IF n = 0 THEN Zero ELSE RAdd(SumTax(d, n - 1), d[n].tax)

(* C34: every transaction carries tax = max(0, gain_loss) x tax_rate; the
   total_tax of the year is at most the sum of the tax of its transactions,
   and equal to it when no transaction of the year has a loss. *)
C34_TaxPerTransaction ==
    \A y \in Calculated :
        LET d == results[y].details
        IN  /\ \A i \in DOMAIN d :
                  /\ d[i].tax = RMul(IF RLt(Zero, d[i].gain_loss) THEN d[i].gain_loss
                                     ELSE Zero, tax_rate)
                  /\ RLe(Zero, d[i].tax)
            /\ RLe(results[y].total_tax, SumTax(d, Len(d)))
            /\ (\A i \in DOMAIN d : RLe(Zero, d[i].gain_loss)) =>
                  results[y].total_tax = SumTax(d, Len(d))

\* a year with a gain and a loss: tax is owed, less than the sum of the
\* tax of its transactions
C34_Witness ==
    /\ DEFAULT_TAX_YEAR \in Calculated
    /\ \E i, j \in DOMAIN results[DEFAULT_TAX_YEAR].details :
          /\ RLt(Zero, results[DEFAULT_TAX_YEAR].details[i].gain_loss)
          /\ RLt(results[DEFAULT_TAX_YEAR].details[j].gain_loss, Zero)
          /\ results[DEFAULT_TAX_YEAR].details[j].tax = Zero
    /\ RLt(Zero, results[DEFAULT_TAX_YEAR].total_tax)
    /\ RLt(results[DEFAULT_TAX_YEAR].total_tax,
           SumTax(results[DEFAULT_TAX_YEAR].details,
                  Len(results[DEFAULT_TAX_YEAR].details)))

----------------------------------------------------------------------------
(* Properties of settlement and of the rate manager *)

Settling == probe.op \in {"settle_buy", "settle_sell_with_rate"}

\* the rate the provider gives for the day and the currency of the order
\* settled, on the rate table the call found
ProviderRate ==
    get_rate(probe.rates, probe.api, probe.order.executed_at.date,
             probe.order.currency, "CNY").rate

\* quantity x price x multiplier of the order settled
Notional ==
    RMul(RMul(R(probe.order.quantity), probe.order.price),
         R(get_multiplier(probe.order.symbol)))

\* the fee of the order settled
Fee == extract_fees(probe.order).value

(* C22: settle_buy returns (quantity x price x multiplier + fees) x rate and
   settle_sell_with_rate returns ((quantity x price x multiplier - fees) x
   rate, rate), rate being the provider's rate for the order's day and
   currency to CNY and multiplier get_multiplier(symbol); a buy of 30 at 580
   with a fee of 5 at the rate 7.3 settles to 127056.5. *)
C22_SettlementFormula ==
    /\ (probe.op = "settle_buy" /\ ~probe.raised) =>
           /\ probe.rate = ProviderRate
           /\ probe.amount = RMul(RAdd(Notional, Fee), probe.rate)
    /\ (probe.op = "settle_sell_with_rate" /\ ~probe.raised) =>
           /\ probe.rate = ProviderRate
           /\ probe.amount = RMul(RSub(Notional, Fee), probe.rate)
    /\ (/\ probe.op = "settle_buy" /\ ~probe.raised
        /\ probe.order.symbol = "SPY.US"
        /\ probe.order.quantity = 30 /\ probe.order.price = R(580)
        /\ Fee = R(5) /\ probe.rate = <<73, 10>>) =>
           probe.amount = <<254113, 2>>

\* the buy of 30 SPY.US at 580 with a fee of 5, at a cached rate of 7.3
C22_Witness ==
    /\ probe.op = "settle_buy" /\ ~probe.raised
    /\ probe.order.symbol = "SPY.US"
    /\ probe.order.quantity = 30 /\ probe.order.price = R(580)
    /\ probe.order.fees = [shape |-> "numeric_string", total |-> R(5)]
    /\ probe.rate = <<73, 10>>
    /\ probe.amount = <<254113, 2>>

(* C23 (as claimed): fee extraction never raises, whatever the shape of the
   fee data of the order, and gives 0 whenever the total is missing, empty
   or not numeric, fee data that is not a mapping included. *)
C23_FeeExtractionNeverRaises ==
    Settling =>
        /\ ~probe.raised
        /\ probe.order.fees.shape \notin {"number", "numeric_string"} => Fee = Zero

\* the symbol has the option form, from its first to its last character:
\* a ticker of t characters, 6 digits, C or P, k digits, ".US"
HasOptionForm(s) ==
    \E t \in 1 .. Len(s), k \in 1 .. Len(s) :
        /\ Len(s) = t + 6 + 1 + k + 3
        /\ \A i \in t + 1 .. t + 6 : s[i] \in Digits
        /\ s[t + 7] \in {"C", "P"}
        /\ \A i \in t + 8 .. t + 7 + k : s[i] \in Digits
        /\ SubSeq(s, t + 8 + k, Len(s)) = <<".", "U", "S">>

(* C24 (as claimed): get_multiplier gives 100 exactly when the whole symbol
   has the option form (a non-empty ticker, 6 digits, C or P, at least one
   strike digit, the suffix .US) and 1 otherwise; AMDL.US and SOXL.US give 1. *)
C24_MultiplierByWholeSymbol ==
    probe.op = "get_multiplier" =>
        /\ probe.multiplier = (IF HasOptionForm(Chars(probe.symbol)) THEN 100 ELSE 1)
        /\ probe.symbol \in {"AMDL.US", "SOXL.US"} => probe.multiplier = 1

(* C25: get_rate returns a rate greater than 0 whether or not the rate is
   cached, the rate service answers, a rate of a nearby day is cached and
   CNY_RATES has the currency; so does every settlement. *)
C25_RateAlwaysPositive ==
    /\ probe.op = "get_rate" => RLt(Zero, probe.rate)
    /\ Settling => RLt(Zero, probe.rate)
    /\ \A key \in DOMAIN exchange_rates : RLt(Zero, exchange_rates[key])

\* nothing to go by: not cached, no answer, no nearby day cached, a
\* currency without a static rate, on a table that holds other rates
C25_Witness ==
    /\ probe.op = "get_rate"
    /\ probe.api = Zero
    /\ probe.currency \notin DOMAIN CNY_RATES
    /\ probe.rates # NoRates
    /\ ~Truthy(get_exchange_rate(probe.rates, probe.date, probe.currency, "CNY"))
    /\ ~Truthy(get_nearby_rate(probe.rates, probe.date, probe.currency, "CNY"))
    /\ probe.rate = R(1)

(* C26 (as claimed): when the rate of the day is not cached and the rate
   service fails, and a rate of a day within 7 days is cached, get_rate
   returns that nearby rate. *)
C26_NearbyBeforeStatic ==
    (/\ probe.op = "get_rate"
     /\ probe.api = Zero
     /\ ~Truthy(get_exchange_rate(probe.rates, probe.date, probe.currency, "CNY"))
     /\ Truthy(get_nearby_rate(probe.rates, probe.date, probe.currency, "CNY"))) =>
        probe.rate = get_nearby_rate(probe.rates, probe.date, probe.currency, "CNY")

(* C36 (as claimed): once update_order_fees has stored fees for an order, a
   later save_orders with the same order_id leaves the fees of that order as
   stored, and with them its settled amount: no step of import-data,
   update-fees, import-data changes fee data that is stored. *)
C36_FeesSurviveReimport ==
    [][\A k \in DOMAIN orders :
          orders[k].fees # NoFees =>
              /\ k \in DOMAIN orders'
              /\ orders'[k].order_id = orders[k].order_id
              /\ orders'[k].fees = orders[k].fees
              /\ settle_buy(exchange_rates', Zero, orders'[k]).amount =
                     settle_buy(exchange_rates, Zero, orders[k]).amount]_vars

\* the API limit the windows are cut for, in days
ApiLimitDays == 90

\* an instant lies in one of the windows requested
Requested(t) ==
    \E i \in DOMAIN fetch.requests :
        fetch.requests[i].start_at <= t /\ t <= fetch.requests[i].end_at

\* the instants where a gap of the windows would begin: the start of the
\* range and the second after the end of each window
GapStarts ==
    {fetch.start} \cup {fetch.requests[i].end_at + 1 : i \in DOMAIN fetch.requests}

(* C35 (as claimed): fetch_orders(start, end) with start < end makes finitely
   many requests, at most one for every day of the range begun, each window
   spans at most 90 days, and when it returns every instant of [start, end]
   lies in one of the windows requested. *)
C35_WindowsCoverRange ==
    fetch.pc # "idle" =>
        /\ Len(fetch.requests) * SecondsPerDay <= fetch.end - fetch.start + SecondsPerDay
        /\ \A i \in DOMAIN fetch.requests :
              /\ fetch.requests[i].start_at <= fetch.requests[i].end_at
              /\ fetch.requests[i].end_at - fetch.requests[i].start_at
                     <= ApiLimitDays * SecondsPerDay
        /\ fetch.pc = "done" =>
              \A t \in GapStarts : (fetch.start <= t /\ t <= fetch.end) => Requested(t)

============================================================================
